---- MODULE Spec2Model ----
(***************************************************************************)
(* The wgpu scene renderer of richter: GraphicsState's dynamic uniform     *)
(* buffers and the Renderer's two-phase frame (update_uniform_buffers,     *)
(* then the commands of render_pass).  Source: src/client/render/wgpu/     *)
(* mod.rs.  DynamicUniformBuffer (uniform.rs) and the glyph renderer       *)
(* (glyph.rs) are not part of the sources at hand; their operations follow *)
(* section 4.2 of the specification.                                       *)
(***************************************************************************)
EXTENDS Integers, Sequences, FiniteSets, TLC

\* ------------------------------------------------------------------ bounds
\* update_uniform_buffers calls explored per run (frames and standalone calls)
MaxFrames == 2
\* entities per frame
MaxEnts == 2
\* glyph uniforms generated per frame
MaxGlyphs == 1
\* recreate_depth_attachment calls per run
MaxResizes == 2
\* values given to a buffer driven on its own (allocate and write_block calls)
MaxOps == 5
\* clear calls on a buffer driven on its own
MaxClears == 1
\* largest uniform struct size tried, in bytes
MaxSize == 520
\* a Renderer is rebuilt while the entity buffer has fewer blocks than this
MaxBlocks == 4

\* --------------------------------------------------------------- constants
\* #[repr(C, align(256))] struct EntityUniforms { transform: Matrix4<f32> }:
\* size_of is 64 bytes rounded up to the type's alignment
EntityUniformsSize == 256
\* the device's minimum uniform-binding alignment (the A of the specification)
Alignment == 256

Max(a, b) == IF a >= b THEN a ELSE b

\* ------------------------------------------------------------------ inputs
\* Model kinds (common::model::ModelKind) with the sprite's SpriteKind.
Alias == [kind |-> "Alias", sprite |-> "NA"]
Brush == [kind |-> "Brush", sprite |-> "NA"]
SpriteOriented == [kind |-> "Sprite", sprite |-> "Oriented"]
SpriteParallel == [kind |-> "Sprite", sprite |-> "VpParallel"]
NoModel == [kind |-> "None", sprite |-> "NA"]

\* The model lists and world-model indices a Renderer is built from.
ModelLists ==
    { [models |-> <<Alias, Brush, SpriteParallel>>, worldmodel_id |-> 1],
      [models |-> <<NoModel, Brush, Alias, SpriteOriented>>, worldmodel_id |-> 1],
      [models |-> <<Brush, NoModel, Alias>>, worldmodel_id |-> 0],
      [models |-> <<SpriteParallel, NoModel, Brush>>, worldmodel_id |-> 2],
      [models |-> <<Alias, NoModel>>, worldmodel_id |-> 0] }

\* Camera poses of the frames: origin, angles (degrees), projection (a name:
\* the matrix is opaque).
CameraInputs ==
    { [origin |-> <<1, 2, 3>>, angles |-> <<10, 20, 30>>, projection |-> "P"] }

\* The pose of the entities that reference model m: entities of different
\* models get different origins and angles.
EntityPose(m) == [origin |-> <<4 + m, 5, 6>>, angles |-> <<40 + m, 50, 60>>]

\* ----------------------------------------------------------------- Camera
\* A Matrix4 is kept as the factors of the product it was built from:
\* proj * rotation(rot) * translation(trans) * translation(translate) * rotation(euler),
\* with a zero vector standing for the identity factor.
Matrix4(proj, rot, trans, translate, euler) ==
    [proj |-> proj, rot |-> rot, trans |-> trans, translate |-> translate, euler |-> euler]

\* Matrix4::identity()
Matrix4_identity == Matrix4("I", <<0, 0, 0>>, <<0, 0, 0>>, <<0, 0, 0>>, <<0, 0, 0>>)

\* variant: the camera position is negated but its axes are not converted
Camera_new_unconverted(origin, angles, projection) ==
    [origin |-> origin, angles |-> angles,
     transform |-> Matrix4(projection, <<angles[1], 0 - angles[2], 0 - angles[3]>>,
                           <<0 - origin[1], 0 - origin[2], 0 - origin[3]>>,
                           <<0, 0, 0>>, <<0, 0, 0>>)]

Camera_new(origin, angles, projection) ==
    LET converted_origin == <<0 - origin[2], origin[3], 0 - origin[1]>>
        translation == <<0 - converted_origin[1], 0 - converted_origin[2], 0 - converted_origin[3]>>
        rotation == <<angles[1], 0 - angles[2], 0 - angles[3]>>
    IN  [origin |-> origin, angles |-> angles,
         transform |-> Matrix4(projection, rotation, translation, <<0, 0, 0>>, <<0, 0, 0>>)]

Cameras == { Camera_new(c.origin, c.angles, c.projection) : c \in CameraInputs }

\* Camera::origin(), Camera::angles(), Camera::transform()
Camera_origin(c) == c.origin
Camera_angles(c) == c.angles
Camera_transform(c) == c.transform

\* --------------------------------------------------- DynamicUniformBuffer<T>
\* variant: one more block than the division gives, also for exact multiples
RoundUp_always_next(size, align) == ((size \div align) + 1) * align

\* stride = round_up(size_of(T), alignment)
RoundUp(size, align) == ((size + align - 1) \div align) * align

block_size == RoundUp(EntityUniformsSize, Alignment)

\* A fresh buffer for a uniform struct of the given size on a device of the
\* given alignment: no element, zero capacity.  staged is the CPU-side copy, gpu
\* the contents of the backing buffer, cap the capacity in blocks, epoch counts
\* the clears, stride is the byte distance of two blocks.  backing names the
\* GPU buffer object: a GPU buffer has the size it was created with, so every
\* growth of the capacity makes a new one.
DynamicUniformBuffer_for(size, align) ==
    [staged |-> <<>>, gpu |-> <<>>, cap |-> 0, epoch |-> 0, stride |-> RoundUp(size, align),
     backing |-> 0]

\* DynamicUniformBuffer::new(&device) for EntityUniforms
DynamicUniformBuffer_new == DynamicUniformBuffer_for(EntityUniformsSize, Alignment)

\* variant: growth moves to a new staging area without copying the elements
allocate_growth_drops(b, val) ==
    LET n == Len(b.staged)
        grows == n + 1 > b.cap
    IN  [buf |-> [b EXCEPT !.staged = IF grows THEN [i \in 1..(n + 1) |-> IF i <= n THEN 0 ELSE val]
                                               ELSE Append(@, val),
                           !.cap = IF grows THEN (IF @ = 0 THEN 1 ELSE 2 * @) ELSE @,
                           !.backing = IF grows THEN @ + 1 ELSE @],
         block |-> [addr |-> n * b.stride, epoch |-> b.epoch]]

\* variant: the element is appended but the capacity never grows
allocate_no_growth(b, val) ==
    [buf |-> [b EXCEPT !.staged = Append(@, val)],
     block |-> [addr |-> Len(b.staged) * b.stride, epoch |-> b.epoch]]

\* allocate(value): appends one element (growing the capacity geometrically
\* when needed) and returns the buffer with the handle of the new block.
allocate(b, val) ==
    LET n == Len(b.staged)
    IN  [buf |-> [b EXCEPT !.staged = Append(@, val),
                           !.cap = IF n + 1 > @ THEN (IF @ = 0 THEN 1 ELSE 2 * @) ELSE @,
                           !.backing = IF n + 1 > b.cap THEN @ + 1 ELSE @],
         block |-> [addr |-> n * b.stride, epoch |-> b.epoch]]

\* variant: the value is also written through to the GPU copy
write_block_through(b, h, val) ==
    LET i == (h.addr \div b.stride) + 1
    IN  IF h.epoch = b.epoch /\ i \in DOMAIN b.staged
        THEN [b EXCEPT !.staged[i] = val,
                       !.gpu = IF i \in DOMAIN @ THEN [@ EXCEPT ![i] = val] ELSE @]
        ELSE b

\* write_block(handle, value): overwrites the staged value of a live handle.
write_block(b, h, val) ==
    LET i == (h.addr \div b.stride) + 1
    IN  IF h.epoch = b.epoch /\ i \in DOMAIN b.staged
        THEN [b EXCEPT !.staged[i] = val]
        ELSE b

\* variant: only the elements the GPU copy does not have yet are transferred
flush_new_elements(b) ==
    [b EXCEPT !.gpu = [i \in 1..Max(Len(b.gpu), Len(b.staged)) |->
                          IF i <= Len(b.gpu) THEN b.gpu[i] ELSE b.staged[i]]]

\* flush(queue): copies the whole staged region to the GPU in one transfer.
flush(b) ==
    [b EXCEPT !.gpu = [i \in 1..Max(Len(b.gpu), Len(b.staged)) |->
                          IF i <= Len(b.staged) THEN b.staged[i] ELSE b.gpu[i]]]

\* variant: the handles are invalidated but the elements stay
clear_keeps_elements(b) == [b EXCEPT !.epoch = @ + 1]

\* clear(): invalidates every outstanding handle, resets to zero elements.
clear(b) == [b EXCEPT !.staged = <<>>, !.epoch = @ + 1]

\* ------------------------------------------------------------- the state
VARIABLES
    pc,                     \* position of the single thread, or the panic that ended it
    models,                 \* the model list the Renderer was built from
    worldmodel_id,          \* the designated world model
    entity_renderers,       \* Renderer.entity_renderers
    world_uniform_block,    \* Renderer.world_uniform_block
    entity_uniform_blocks,  \* Renderer.entity_uniform_blocks
    glyph_uniform_blocks,   \* Renderer.glyph_uniform_blocks
    entity_uniform_buffer,  \* GraphicsState.entity_uniform_buffer
    glyph_uniform_buffer,   \* GraphicsState.glyph_uniform_buffer
    frame_uniform_buffer,   \* GraphicsState.frame_uniform_buffer (GPU contents)
    frame,                  \* arguments of the call in progress (or of the last one)
    trace,                  \* uniform operations and recorded commands of that call, in program order
    tick,                   \* number of update_uniform_buffers calls so far
    submitted,              \* command buffers submitted by the call in progress (or the last one)
    max_ents,               \* largest entity count of an update call of this Renderer
    depth_attachment,       \* GraphicsState.depth_attachment: the texture it holds (they are numbered as created)
    depth_view,             \* render_pass's local depth_view: the texture it views
    in_flight,              \* command buffers the queue has and the device has not completed
    test                    \* an object driven on its own: a DynamicUniformBuffer with the handles
                            \* it gave out, a Camera with an entity, or the layouts of the pipelines

vars == <<pc, models, worldmodel_id, entity_renderers, world_uniform_block,
          entity_uniform_blocks, glyph_uniform_blocks, entity_uniform_buffer,
          glyph_uniform_buffer, frame_uniform_buffer, frame, trace, tick,
          submitted, max_ents, depth_attachment, depth_view, in_flight, test>>

\* the state of the device side: depth texture, view and submitted work
gpu_vars == <<depth_attachment, depth_view, in_flight>>

\* the state of the Renderer and of GraphicsState's uniform buffers
renderer_vars == <<pc, models, worldmodel_id, entity_renderers, world_uniform_block,
                   entity_uniform_blocks, glyph_uniform_blocks, entity_uniform_buffer,
                   glyph_uniform_buffer, frame_uniform_buffer, frame, trace, tick,
                   submitted, max_ents>>

NoBlock == [addr |-> 0 - 1, epoch |-> 0 - 1]
NoFrame == [camera |-> Camera_new(<<0, 0, 0>>, <<0, 0, 0>>, "P"), ents |-> <<>>, nglyphs |-> 0, in_pass |-> FALSE]
NoView == 0 - 1
\* no call yet on the buffer driven on its own
NoOp == [op |-> "none", k |-> 0, grew |-> FALSE, was_empty |-> FALSE]
\* the buffer driven on its own, not yet constructed: the size of its uniform
\* struct and the alignment of the device; handles are the blocks it returned,
\* given the last value given to each, ops the number of values given so far
NoTest == [size |-> EntityUniformsSize, align |-> Alignment, built |-> FALSE,
           buf |-> DynamicUniformBuffer_new, handles |-> <<>>, given |-> <<>>,
           last |-> NoOp, ops |-> 0]

\* GraphicsState.bind_groups[PerEntity], created once in GraphicsState::new: it
\* binds the first block_size bytes of the buffer that entity_uniform_buffer
\* has at that moment; no method replaces the bind group.
per_entity_bind_group ==
    [buffer |-> DynamicUniformBuffer_new.backing, offset |-> 0, size |-> block_size]

\* The state after GraphicsState::new: both dynamic buffers fresh, no Renderer yet.
InitGraphicsState ==
    /\ pc = "no_renderer"
    /\ models = <<>>
    /\ worldmodel_id = 0
    /\ entity_renderers = <<>>
    /\ world_uniform_block = NoBlock
    /\ entity_uniform_blocks = <<>>
    /\ glyph_uniform_blocks = <<>>
    /\ entity_uniform_buffer = DynamicUniformBuffer_new
    /\ glyph_uniform_buffer = DynamicUniformBuffer_new
    /\ frame_uniform_buffer = "uninit"
    /\ frame = NoFrame
    /\ trace = <<>>
    /\ tick = 0
    /\ submitted = 0
    /\ max_ents = 0
    /\ depth_attachment = 0
    /\ depth_view = NoView
    /\ in_flight = {}

Init == InitGraphicsState /\ test = NoTest

\* The Renderer and the buffers it works on, as one record the operations map.
Self ==
    [entity_renderers |-> entity_renderers,
     world_uniform_block |-> world_uniform_block,
     entity_uniform_blocks |-> entity_uniform_blocks,
     glyph_uniform_blocks |-> glyph_uniform_blocks,
     entity_uniform_buffer |-> entity_uniform_buffer,
     glyph_uniform_buffer |-> glyph_uniform_buffer,
     frame_uniform_buffer |-> frame_uniform_buffer,
     trace |-> trace,
     panic |-> "none"]

\* One entry of the trace.  op: write_frame, write_block, allocate, flush, clear
\* (uniform operations), bind, draw (recorded commands); buf: the buffer or the
\* bind group; addr: byte offset; pos: entity position (-1: none); via: the
\* sub-renderer dispatched to.
Event(op, buf, addr, pos, via) == [op |-> op, buf |-> buf, addr |-> addr, pos |-> pos, via |-> via]

UniformOps == {"write_frame", "write_block", "allocate", "flush", "clear"}
Commands == {"bind", "draw"}

\* A uniform value together with the number of the update call that staged it.
Stamped(val, t) == [val |-> val, tick |-> t]

\* ------------------------------------------------------------ Renderer::new
\* enum EntityRenderer and the classification of one model in Renderer::new
EntityRenderer(model) ==
    CASE model.kind = "Alias" -> [tag |-> "Alias", kind |-> "NA"]
      [] model.kind = "Brush" -> [tag |-> "Brush", kind |-> "NA"]
      [] model.kind = "Sprite" -> [tag |-> "Sprite", kind |-> model.sprite]
      [] OTHER -> [tag |-> "None", kind |-> "NA"]

RECURSIVE classify_models(_, _, _, _)
\* the loop of Renderer::new over models.iter().enumerate(); i is 1-based here,
\* the code's index is i - 1
classify_models(ms, w, i, acc) ==
    IF i > Len(ms) THEN acc
    ELSE IF i - 1 = w
         THEN IF ms[i].kind = "Brush"
              THEN classify_models(ms, w, i + 1, [acc EXCEPT !.world = TRUE])
              ELSE [acc EXCEPT !.panic = "invalid_worldmodel"]
         ELSE classify_models(ms, w, i + 1,
                  [acc EXCEPT !.renderers = Append(@, EntityRenderer(ms[i]))])

\* variant: the world block is taken to be the first block, nothing is allocated
allocate_world_block_unallocated(buf, t) == [buf |-> buf, block |-> [addr |-> 0, epoch |-> buf.epoch]]

\* variant: a new Renderer starts from a cleared entity buffer
allocate_world_block_cleared(buf, t) == allocate(clear(buf), Stamped(Matrix4_identity, t))

\* state.entity_uniform_buffer_mut().allocate(EntityUniforms { transform: Matrix4::identity() })
allocate_world_block(buf, t) == allocate(buf, Stamped(Matrix4_identity, t))

\* Renderer::new(models, worldmodel_id, state): the world block is allocated
\* first, then every model but the world model is classified.
renderer_new ==
    /\ \E cfg \in ModelLists :
        LET a == allocate_world_block(entity_uniform_buffer, tick)
            c == classify_models(cfg.models, cfg.worldmodel_id, 1,
                                 [renderers |-> <<>>, world |-> FALSE, panic |-> "none"])
            ok == c.panic = "none" /\ c.world
        IN  /\ entity_uniform_buffer' = a.buf
            /\ models' = cfg.models
            /\ worldmodel_id' = cfg.worldmodel_id
            /\ world_uniform_block' = IF ok THEN a.block ELSE NoBlock
            /\ entity_renderers' = IF ok THEN c.renderers ELSE <<>>
            /\ pc' = IF ok THEN "idle" ELSE "invalid_worldmodel"
    /\ entity_uniform_blocks' = <<>>
    /\ glyph_uniform_blocks' = <<>>
    /\ max_ents' = 0
    /\ UNCHANGED <<glyph_uniform_buffer, frame_uniform_buffer, frame, trace, tick, submitted>>
    /\ UNCHANGED <<gpu_vars, test>>

\* the first Renderer on the GraphicsState
RendererNew ==
    /\ pc = "no_renderer"
    /\ renderer_new

\* ------------------------------------------------------------- dispatch
Panic == [tag |-> "Panic", kind |-> "NA"]

\* variant: the index is the model id itself, the world model counted
renderer_for_entity_no_offset(self, ent) ==
    LET i == ent.model_id
    IN  IF i < 0 \/ i >= Len(self.entity_renderers)
        THEN Panic
        ELSE self.entity_renderers[i + 1]

\* &self.entity_renderers[ent.get_model_id() - 1]: the subtraction is on usize,
\* so model id 0 panics (overflow, or the wrapped index out of range), and so
\* does an index past the end.
renderer_for_entity(self, ent) ==
    LET i == ent.model_id - 1
    IN  IF i < 0 \/ i >= Len(self.entity_renderers)
        THEN Panic
        ELSE self.entity_renderers[i + 1]

\* variant: every entity is rotated by its own angles, sprites included
calculate_transform_own_angles(self, camera, entity) ==
    [camera.transform EXCEPT !.translate = <<0 - entity.origin[2], entity.origin[3], 0 - entity.origin[1]>>,
                             !.euler = <<entity.angles[1], entity.angles[2], entity.angles[3]>>]

\* calculate_transform: camera.transform * translation(converted origin) * rotation(euler)
calculate_transform(self, camera, entity) ==
    LET origin == entity.origin
        angles == entity.angles
        r == renderer_for_entity(self, entity)
        euler == IF r.tag = "Sprite"
                 THEN IF r.kind = "Oriented"
                      THEN <<angles[1], angles[2], angles[3]>>
                      ELSE <<0 - camera.angles[1], 0 - camera.angles[2], angles[3]>>
                 ELSE <<angles[1], angles[2], angles[3]>>
    IN  [camera.transform EXCEPT !.translate = <<0 - origin[2], origin[3], 0 - origin[1]>>,
                                 !.euler = euler]

\* --------------------------------------------------- update_uniform_buffers
RECURSIVE update_entities_no_push(_, _, _, _, _)
\* variant: a block allocated for a new position is not kept in the list
update_entities_no_push(self, camera, ents, i, t) ==
    IF i > Len(ents) THEN self
    ELSE LET ent_pos == i - 1
             ent == ents[i]
             r == renderer_for_entity(self, ent)
             ent_uniforms == Stamped(calculate_transform(self, camera, ent), t)
         IN  IF r = Panic
             THEN [self EXCEPT !.panic = "renderer_index"]
             ELSE IF ent_pos >= Len(self.entity_uniform_blocks)
                  THEN LET a == allocate(self.entity_uniform_buffer, ent_uniforms)
                       IN  update_entities_no_push(
                               [self EXCEPT !.entity_uniform_buffer = a.buf,
                                            !.trace = Append(@, Event("allocate", "entity", a.block.addr, ent_pos, r.tag))],
                               camera, ents, i + 1, t)
                  ELSE LET h == self.entity_uniform_blocks[ent_pos + 1]
                       IN  update_entities_no_push(
                               [self EXCEPT !.entity_uniform_buffer = write_block(@, h, ent_uniforms),
                                            !.trace = Append(@, Event("write_block", "entity", h.addr, ent_pos, r.tag))],
                               camera, ents, i + 1, t)

RECURSIVE update_entities_always_allocate(_, _, _, _, _)
\* variant: every position gets a new block, none is reused
update_entities_always_allocate(self, camera, ents, i, t) ==
    IF i > Len(ents) THEN self
    ELSE LET ent_pos == i - 1
             ent == ents[i]
             r == renderer_for_entity(self, ent)
             ent_uniforms == Stamped(calculate_transform(self, camera, ent), t)
             a == allocate(self.entity_uniform_buffer, ent_uniforms)
         IN  IF r = Panic
             THEN [self EXCEPT !.panic = "renderer_index"]
             ELSE update_entities_always_allocate(
                      [self EXCEPT !.entity_uniform_buffer = a.buf,
                                   !.entity_uniform_blocks = Append(@, a.block),
                                   !.trace = Append(@, Event("allocate", "entity", a.block.addr, ent_pos, r.tag))],
                      camera, ents, i + 1, t)

RECURSIVE update_entities(_, _, _, _, _)
\* for (ent_pos, ent) in entities.enumerate(): the transform of the entity is
\* written to the block at its position, or a new block is allocated for it.
\* i is 1-based, ent_pos = i - 1.
update_entities(self, camera, ents, i, t) ==
    IF i > Len(ents) THEN self
    ELSE LET ent_pos == i - 1
             ent == ents[i]
             r == renderer_for_entity(self, ent)
             ent_uniforms == Stamped(calculate_transform(self, camera, ent), t)
         IN  IF r = Panic
             THEN [self EXCEPT !.panic = "renderer_index"]
             ELSE IF ent_pos >= Len(self.entity_uniform_blocks)
                  THEN LET a == allocate(self.entity_uniform_buffer, ent_uniforms)
                       IN  update_entities(
                               [self EXCEPT !.entity_uniform_buffer = a.buf,
                                            !.entity_uniform_blocks = Append(@, a.block),
                                            !.trace = Append(@, Event("allocate", "entity", a.block.addr, ent_pos, r.tag))],
                               camera, ents, i + 1, t)
                  ELSE LET h == self.entity_uniform_blocks[ent_pos + 1]
                       IN  update_entities(
                               [self EXCEPT !.entity_uniform_buffer = write_block(@, h, ent_uniforms),
                                            !.trace = Append(@, Event("write_block", "entity", h.addr, ent_pos, r.tag))],
                               camera, ents, i + 1, t)

\* glyph_renderer.generate_uniforms(commands, display_width, display_height):
\* one uniform per glyph of the frame's text
generate_uniforms(nglyphs, t) == [k \in 1..nglyphs |-> Stamped(<<"glyph", k>>, t)]

RECURSIVE update_glyphs(_, _, _)
\* for (uni_id, uni) in glyph_uniforms.enumerate(); i is 1-based
update_glyphs(self, unis, i) ==
    IF i > Len(unis) THEN self
    ELSE LET uni_id == i - 1
         IN  IF uni_id >= Len(self.glyph_uniform_blocks)
             THEN LET a == allocate(self.glyph_uniform_buffer, unis[i])
                  IN  update_glyphs(
                          [self EXCEPT !.glyph_uniform_buffer = a.buf,
                                       !.glyph_uniform_blocks = Append(@, a.block),
                                       !.trace = Append(@, Event("allocate", "glyph", a.block.addr, uni_id, "NA"))],
                          unis, i + 1)
             ELSE LET h == self.glyph_uniform_blocks[uni_id + 1]
                  IN  update_glyphs(
                          [self EXCEPT !.glyph_uniform_buffer = write_block(@, h, unis[i]),
                                       !.trace = Append(@, Event("write_block", "glyph", h.addr, uni_id, "NA"))],
                          unis, i + 1)

\* the frame-global block and the world block (the head of update_uniform_buffers);
\* the elapsed time of the frame is stood for by the number of the call
update_world(self, camera, t) ==
    [self EXCEPT !.frame_uniform_buffer = [camera_pos |-> camera.origin, time |-> t],
                 !.entity_uniform_buffer =
                     write_block(@, self.world_uniform_block, Stamped(camera.transform, t)),
                 !.trace = @ \o << Event("write_frame", "frame", 0, 0 - 1, "NA"),
                                   Event("write_block", "entity", self.world_uniform_block.addr, 0 - 1, "world") >>]

\* variant: the entity buffer is not flushed after the loop
update_entity_buffer_no_flush(self, camera, ents, t) ==
    update_entities(self, camera, ents, 1, t)

\* the entity part: the loop, then the flush of the entity buffer
update_entity_buffer(self, camera, ents, t) ==
    LET s1 == update_entities(self, camera, ents, 1, t)
    IN  IF s1.panic # "none" THEN s1
        ELSE [s1 EXCEPT !.entity_uniform_buffer = flush(@),
                        !.trace = Append(@, Event("flush", "entity", 0, 0 - 1, "NA"))]

\* variant: the block list is emptied but the glyph buffer is not cleared
update_glyph_buffer_no_clear(self, nglyphs, t) ==
    LET glyph_uniforms == generate_uniforms(nglyphs, t)
        s1 == [self EXCEPT !.glyph_uniform_blocks = <<>>]
        s2 == update_glyphs(s1, glyph_uniforms, 1)
    IN  [s2 EXCEPT !.glyph_uniform_buffer = flush(@),
                   !.trace = Append(@, Event("flush", "glyph", 0, 0 - 1, "NA"))]

\* state.glyph_uniform_buffer_mut().clear().unwrap(): the clear is refused, and
\* the unwrap panics, while a handle of the buffer is still held; the event
\* records how many the Renderer holds
clear_glyph_buffer(self) ==
    LET outstanding == Len(self.glyph_uniform_blocks)
        s == [self EXCEPT !.trace = Append(@, Event("clear", "glyph", 0, outstanding, "NA"))]
    IN  IF outstanding > 0
        THEN [s EXCEPT !.panic = "clear_failed"]
        ELSE [s EXCEPT !.glyph_uniform_buffer = clear(@)]

\* variant: the buffer is cleared before the Renderer drops its handles
update_glyph_buffer_clear_first(self, nglyphs, t) ==
    LET glyph_uniforms == generate_uniforms(nglyphs, t)
        s0 == clear_glyph_buffer(self)
        s1 == [s0 EXCEPT !.glyph_uniform_blocks = <<>>]
        s2 == update_glyphs(s1, glyph_uniforms, 1)
    IN  IF s0.panic # "none" THEN s0
        ELSE [s2 EXCEPT !.glyph_uniform_buffer = flush(@),
                        !.trace = Append(@, Event("flush", "glyph", 0, 0 - 1, "NA"))]

\* the glyph part: the handles are dropped, the buffer is cleared, then the
\* loop and the flush of the glyph buffer
update_glyph_buffer(self, nglyphs, t) ==
    LET glyph_uniforms == generate_uniforms(nglyphs, t)
        s0 == [self EXCEPT !.glyph_uniform_blocks = <<>>]
        s1 == clear_glyph_buffer(s0)
        s2 == update_glyphs(s1, glyph_uniforms, 1)
    IN  IF s1.panic # "none" THEN s1
        ELSE [s2 EXCEPT !.glyph_uniform_buffer = flush(@),
                        !.trace = Append(@, Event("flush", "glyph", 0, 0 - 1, "NA"))]

\* variant: the world block is written after the entity buffer was flushed
update_uniform_buffers_world_last(self, camera, ents, nglyphs, t) ==
    LET s0 == update_entity_buffer(
                  [self EXCEPT !.frame_uniform_buffer = [camera_pos |-> camera.origin, time |-> t],
                               !.trace = Append(@, Event("write_frame", "frame", 0, 0 - 1, "NA"))],
                  camera, ents, t)
        s1 == [s0 EXCEPT !.entity_uniform_buffer =
                             write_block(@, self.world_uniform_block, Stamped(camera.transform, t)),
                         !.trace = Append(@, Event("write_block", "entity", self.world_uniform_block.addr, 0 - 1, "world"))]
    IN  IF s0.panic # "none" THEN s0 ELSE update_glyph_buffer(s1, nglyphs, t)

\* Renderer::update_uniform_buffers
update_uniform_buffers(self, camera, ents, nglyphs, t) ==
    LET s1 == update_entity_buffer(update_world(self, camera, t), camera, ents, t)
    IN  IF s1.panic # "none" THEN s1 ELSE update_glyph_buffer(s1, nglyphs, t)

\* ------------------------------------------------------------- render_pass
RECURSIVE draw_entities_reversed(_, _, _)
\* variant: the draw loop takes the blocks from the end of the list
draw_entities_reversed(self, ents, i) ==
    IF i > Len(ents) THEN self
    ELSE LET ent_pos == i - 1
         IN  IF ent_pos >= Len(self.entity_uniform_blocks)
             THEN [self EXCEPT !.panic = "block_index"]
             ELSE LET h == self.entity_uniform_blocks[Len(self.entity_uniform_blocks) - ent_pos]
                      bound == [self EXCEPT !.trace = Append(@, Event("bind", "PerEntity", h.addr, ent_pos, "NA"))]
                      r == renderer_for_entity(self, ents[i])
                  IN  IF r = Panic
                      THEN [bound EXCEPT !.panic = "renderer_index"]
                      ELSE IF r.tag \in {"Brush", "Alias", "Sprite"}
                           THEN draw_entities_reversed(
                                    [bound EXCEPT !.trace = Append(@, Event("draw", "PerEntity", h.addr, ent_pos, r.tag))],
                                    ents, i + 1)
                           ELSE draw_entities_reversed(bound, ents, i + 1)

RECURSIVE draw_entities(_, _, _)
\* the draw loop: bind the entity group at the block of the entity's position,
\* then dispatch on the entity's renderer.  i is 1-based, ent_pos = i - 1.
draw_entities(self, ents, i) ==
    IF i > Len(ents) THEN self
    ELSE LET ent_pos == i - 1
         IN  IF ent_pos >= Len(self.entity_uniform_blocks)
             THEN [self EXCEPT !.panic = "block_index"]
             ELSE LET h == self.entity_uniform_blocks[ent_pos + 1]
                      bound == [self EXCEPT !.trace = Append(@, Event("bind", "PerEntity", h.addr, ent_pos, "NA"))]
                      r == renderer_for_entity(self, ents[i])
                  IN  IF r = Panic
                      THEN [bound EXCEPT !.panic = "renderer_index"]
                      ELSE IF r.tag \in {"Brush", "Alias", "Sprite"}
                           THEN draw_entities(
                                    [bound EXCEPT !.trace = Append(@, Event("draw", "PerEntity", h.addr, ent_pos, r.tag))],
                                    ents, i + 1)
                           ELSE draw_entities(bound, ents, i + 1)

\* variant: the entity buffer is flushed once more after the commands were recorded
record_commands_flush_last(self, ents) ==
    LET w == self.world_uniform_block
        s1 == [self EXCEPT !.trace = @ \o << Event("bind", "PerFrame", 0, 0 - 1, "NA"),
                                             Event("bind", "PerEntity", w.addr, 0 - 1, "world"),
                                             Event("draw", "PerEntity", w.addr, 0 - 1, "world") >>]
        s2 == draw_entities(s1, ents, 1)
    IN  IF s2.panic # "none" THEN s2
        ELSE [s2 EXCEPT !.entity_uniform_buffer = flush(@),
                        !.trace = @ \o << Event("draw", "glyph", 0, Len(s2.glyph_uniform_blocks), "glyph"),
                                          Event("flush", "entity", 0, 0 - 1, "NA") >>]

\* variant: the glyphs are drawn before the world and the entities
record_commands_glyph_first(self, ents) ==
    LET w == self.world_uniform_block
        s1 == [self EXCEPT !.trace = @ \o << Event("bind", "PerFrame", 0, 0 - 1, "NA"),
                                             Event("draw", "glyph", 0, Len(self.glyph_uniform_blocks), "glyph"),
                                             Event("bind", "PerEntity", w.addr, 0 - 1, "world"),
                                             Event("draw", "PerEntity", w.addr, 0 - 1, "world") >>]
    IN  draw_entities(s1, ents, 1)

\* the commands recorded between begin_render_pass and the end of the pass
record_commands(self, ents) ==
    LET w == self.world_uniform_block
        s1 == [self EXCEPT !.trace = @ \o << Event("bind", "PerFrame", 0, 0 - 1, "NA"),
                                             Event("bind", "PerEntity", w.addr, 0 - 1, "world"),
                                             Event("draw", "PerEntity", w.addr, 0 - 1, "world") >>]
        s2 == draw_entities(s1, ents, 1)
    IN  IF s2.panic # "none" THEN s2
        ELSE [s2 EXCEPT !.trace = Append(@, Event("draw", "glyph", 0, Len(s2.glyph_uniform_blocks), "glyph"))]

\* --------------------------------------------------------------- actions
\* An entity of a frame: a model other than the world model, and a pose.
Entities ==
    { [model_id |-> m, origin |-> EntityPose(m).origin, angles |-> EntityPose(m).angles] :
        m \in (0..(Len(models) - 1)) \ {worldmodel_id} }

\* the entity lists of a frame, up to n entities
EntitySeqsUpTo(n) == UNION { [1..k -> Entities] : k \in 0..n }

EntitySeqs == EntitySeqsUpTo(MaxEnts)

Store(s) ==
    /\ entity_uniform_blocks' = s.entity_uniform_blocks
    /\ glyph_uniform_blocks' = s.glyph_uniform_blocks
    /\ entity_uniform_buffer' = s.entity_uniform_buffer
    /\ glyph_uniform_buffer' = s.glyph_uniform_buffer
    /\ frame_uniform_buffer' = s.frame_uniform_buffer
    /\ trace' = s.trace

\* variant: a view kept from before the last resize, of the texture it replaced
create_default_view_of_replaced == IF depth_attachment > 0 THEN depth_attachment - 1 ELSE depth_attachment

\* self.state.depth_attachment().create_default_view(): a view of the texture
\* the GraphicsState holds at this moment
create_default_view == depth_attachment

\* render_pass up to the return of its update_uniform_buffers call, for the
\* frames of the given entity lists and glyph counts
render_pass_begin(seqs, glyphs) ==
    /\ pc = "idle"
    /\ tick < MaxFrames
    /\ depth_view' = create_default_view
    /\ \E camera \in Cameras, ents \in seqs, nglyphs \in glyphs :
        \E s \in {update_uniform_buffers([Self EXCEPT !.trace = <<>>], camera, ents, nglyphs, tick + 1)} :
            /\ Store(s)
            /\ frame' = [camera |-> camera, ents |-> ents, nglyphs |-> nglyphs, in_pass |-> TRUE]
            /\ pc' = IF s.panic = "none" THEN "updated" ELSE s.panic
            /\ max_ents' = IF s.panic = "none" THEN Max(max_ents, Len(ents)) ELSE max_ents
    /\ tick' = tick + 1
    /\ submitted' = 0
    /\ UNCHANGED <<models, worldmodel_id, entity_renderers, world_uniform_block>>
    /\ UNCHANGED <<depth_attachment, in_flight, test>>

RenderPassBegin == render_pass_begin(EntitySeqs, 0..MaxGlyphs)

\* render_pass from begin_render_pass (with depth_view as the depth attachment)
\* to the end of the pass
RenderPassRecord ==
    /\ pc = "updated"
    /\ \E s \in {record_commands(Self, frame.ents)} :
           /\ Store(s)
           /\ pc' = IF s.panic = "none" THEN "recorded" ELSE s.panic
    /\ UNCHANGED <<models, worldmodel_id, entity_renderers, world_uniform_block,
                   frame, tick, submitted, max_ents>>
    /\ UNCHANGED <<gpu_vars, test>>

\* encoder.finish(), queue.submit(vec![command_buffer]): the device has the
\* command buffer, whose pass writes the depth texture of depth_view
RenderPassSubmit ==
    /\ pc = "recorded"
    /\ submitted' = submitted + 1
    /\ in_flight' = in_flight \cup {[frame |-> tick, depth |-> depth_view]}
    /\ pc' = "submitted"
    /\ UNCHANGED <<models, worldmodel_id, entity_renderers, world_uniform_block,
                   entity_uniform_blocks, glyph_uniform_blocks, entity_uniform_buffer,
                   glyph_uniform_buffer, frame_uniform_buffer, frame, trace, tick, max_ents>>
    /\ UNCHANGED <<depth_attachment, depth_view, test>>

\* the device completes a command buffer, at its own pace
DeviceCompletes ==
    /\ \E cb \in in_flight : in_flight' = in_flight \ {cb}
    /\ UNCHANGED <<renderer_vars, depth_attachment, depth_view, test>>

\* variant: Maintain::Poll, which returns at once
RenderPassPoll_no_wait ==
    /\ pc = "submitted"
    /\ pc' = "idle"
    /\ depth_view' = NoView
    /\ UNCHANGED <<models, worldmodel_id, entity_renderers, world_uniform_block,
                   entity_uniform_blocks, glyph_uniform_blocks, entity_uniform_buffer,
                   glyph_uniform_buffer, frame_uniform_buffer, frame, trace, tick,
                   submitted, max_ents>>
    /\ UNCHANGED <<depth_attachment, in_flight, test>>

\* device.poll(wgpu::Maintain::Wait) returns once the device has completed all
\* submitted work; render_pass returns and its depth_view is dropped
RenderPassPoll ==
    /\ pc = "submitted"
    /\ in_flight = {}
    /\ pc' = "idle"
    /\ depth_view' = NoView
    /\ UNCHANGED <<models, worldmodel_id, entity_renderers, world_uniform_block,
                   entity_uniform_blocks, glyph_uniform_blocks, entity_uniform_buffer,
                   glyph_uniform_buffer, frame_uniform_buffer, frame, trace, tick,
                   submitted, max_ents>>
    /\ UNCHANGED <<depth_attachment, in_flight, test>>

\* update_uniform_buffers called on its own (it is a public method)
UpdateUniformBuffers ==
    /\ pc = "idle"
    /\ tick < MaxFrames
    /\ \E camera \in Cameras, ents \in EntitySeqs, nglyphs \in 0..MaxGlyphs :
        \E s \in {update_uniform_buffers([Self EXCEPT !.trace = <<>>], camera, ents, nglyphs, tick + 1)} :
            /\ Store(s)
            /\ frame' = [camera |-> camera, ents |-> ents, nglyphs |-> nglyphs, in_pass |-> FALSE]
            /\ pc' = IF s.panic = "none" THEN "idle" ELSE s.panic
            /\ max_ents' = IF s.panic = "none" THEN Max(max_ents, Len(ents)) ELSE max_ents
    /\ tick' = tick + 1
    /\ submitted' = 0
    /\ UNCHANGED <<models, worldmodel_id, entity_renderers, world_uniform_block>>
    /\ UNCHANGED <<gpu_vars, test>>

Next ==
    \/ RendererNew
    \/ RenderPassBegin
    \/ RenderPassRecord
    \/ RenderPassSubmit
    \/ DeviceCompletes
    \/ RenderPassPoll
    \/ UpdateUniformBuffers

Spec == Init /\ [][Next]_vars

\* ------------------------------------------------------------------ resize
\* GraphicsState::recreate_depth_attachment(width, height): a new texture is
\* created and replaces the old one, which is dropped.  GraphicsState is not
\* Sync (its fields are RefCells) and render_pass does not call out, so the call
\* comes between the calls of the Renderer.
RecreateDepthAttachment ==
    /\ pc \in {"no_renderer", "idle"}
    /\ depth_attachment < MaxResizes
    /\ depth_attachment' = depth_attachment + 1
    /\ UNCHANGED <<renderer_vars, depth_view, in_flight, test>>

\* render_pass for the frames of at most one entity and no glyph
ResizeRenderPassBegin == render_pass_begin(EntitySeqsUpTo(1), {0})

NextResize ==
    \/ RendererNew
    \/ ResizeRenderPassBegin
    \/ RenderPassRecord
    \/ RenderPassSubmit
    \/ DeviceCompletes
    \/ RenderPassPoll
    \/ RecreateDepthAttachment

\* frames interleaved with resizes of the window
SpecResize == Init /\ [][NextResize]_vars

\* ------------------------------------------- frames and Renderer rebuilds
\* the model set changed: a new Renderer is built on the same GraphicsState
\* and takes the place of the old one, whose block handles are dropped
RendererRebuild ==
    /\ pc = "idle"
    /\ Len(entity_uniform_buffer.staged) < MaxBlocks
    /\ renderer_new

\* render_pass for the frames of every entity list and no glyph
RebuildRenderPassBegin == render_pass_begin(EntitySeqs, {0})

NextRebuild ==
    \/ RendererNew
    \/ RendererRebuild
    \/ RebuildRenderPassBegin
    \/ RenderPassRecord
    \/ RenderPassSubmit
    \/ DeviceCompletes
    \/ RenderPassPoll

\* frames interleaved with rebuilds of the Renderer
SpecRebuild == Init /\ [][NextRebuild]_vars

\* ------------------------------------- a DynamicUniformBuffer on its own
\* struct sizes and device alignments of the buffers driven on their own
BufferLayouts == { <<256, 256>>, <<257, 256>>, <<80, 64>> }

\* DynamicUniformBuffer::new(&device)
BufferNew ==
    /\ ~test.built
    /\ test' = [test EXCEPT !.built = TRUE,
                            !.buf = DynamicUniformBuffer_for(test.size, test.align)]
    /\ UNCHANGED <<renderer_vars, gpu_vars>>

\* buffer.allocate(value); the value is a sentinel no other call gives
BufferAllocate ==
    /\ test.built
    /\ test.ops < MaxOps
    /\ \E a \in {allocate(test.buf, test.ops + 1)} :
           test' = [test EXCEPT !.buf = a.buf,
                                !.handles = Append(@, a.block),
                                !.given = Append(@, test.ops + 1),
                                !.ops = @ + 1,
                                !.last = [NoOp EXCEPT !.op = "allocate",
                                                      !.k = Len(test.handles) + 1,
                                                      !.grew = a.buf.cap # test.buf.cap]]
    /\ UNCHANGED <<renderer_vars, gpu_vars>>

\* buffer.write_block(&handle, value) for a handle that is valid (returned
\* since the last clear)
BufferWriteBlock ==
    /\ test.built
    /\ test.ops < MaxOps
    /\ \E k \in DOMAIN test.handles :
        /\ test.handles[k].epoch = test.buf.epoch
        /\ test' = [test EXCEPT !.buf = write_block(@, test.handles[k], test.ops + 1),
                                !.given[k] = test.ops + 1,
                                !.ops = @ + 1,
                                !.last = [NoOp EXCEPT !.op = "write_block", !.k = k]]
    /\ UNCHANGED <<renderer_vars, gpu_vars>>

\* buffer.flush(queue)
BufferFlush ==
    /\ test.built
    /\ test' = [test EXCEPT !.buf = flush(@), !.last = [NoOp EXCEPT !.op = "flush"]]
    /\ UNCHANGED <<renderer_vars, gpu_vars>>

\* buffer.clear(); the handles given out so far stay with their holders
BufferClear ==
    /\ test.built
    /\ test.buf.epoch < MaxClears
    /\ test' = [test EXCEPT !.buf = clear(@),
                            !.last = [NoOp EXCEPT !.op = "clear",
                                                  !.was_empty = (Len(test.buf.staged) = 0)]]
    /\ UNCHANGED <<renderer_vars, gpu_vars>>

InitBuffer ==
    /\ InitGraphicsState
    /\ test \in { [NoTest EXCEPT !.size = l[1], !.align = l[2]] : l \in BufferLayouts }

NextBuffer ==
    \/ BufferNew
    \/ BufferAllocate
    \/ BufferWriteBlock
    \/ BufferFlush
    \/ BufferClear

\* every sequence of calls on one buffer
SpecBuffer == InitBuffer /\ [][NextBuffer]_vars

\* the device alignments tried: powers of two up to the usual 256
Alignments == {16, 64, 256}

InitStride ==
    /\ InitGraphicsState
    /\ test \in { [NoTest EXCEPT !.size = sz, !.align = al] : sz \in 1..MaxSize, al \in Alignments }

\* the buffers of every struct size and alignment, constructed
SpecStride == InitStride /\ [][BufferNew]_vars

\* ---------------------------------------------------- a Camera on its own
\* camera poses and projections (names: the matrices are opaque, "I" the identity)
CameraOrigins == { <<0, 0, 0>>, <<1, 2, 3>>, <<0 - 4, 0, 5>> }
CameraAngles == { <<0, 0, 0>>, <<10, 20, 30>>, <<0 - 15, 0, 45>> }
Projections == { "I", "P" }

\* origins and angles of the entity whose transform is calculated
EntityOrigins == { <<0, 0, 0>>, <<7, 0 - 8, 9>> }
EntityAngles == { <<0, 0, 0>>, <<40, 50, 60>> }

\* the Renderer's classification of a model list
RenderersOf(cfg) ==
    classify_models(cfg.models, cfg.worldmodel_id, 1,
                    [renderers |-> <<>>, world |-> FALSE, panic |-> "none"])

\* the model lists a Renderer can be built from
ValidModelLists == { cfg \in ModelLists : RenderersOf(cfg).panic = "none" /\ RenderersOf(cfg).world }

NoCamera == Camera_new(<<0, 0, 0>>, <<0, 0, 0>>, "P")

InitCamera ==
    /\ InitGraphicsState
    /\ \E o \in CameraOrigins, a \in CameraAngles, p \in Projections,
          cfg \in ValidModelLists, eo \in EntityOrigins, ea \in EntityAngles :
         \E m \in (0..(Len(cfg.models) - 1)) \ {cfg.worldmodel_id} :
           test = [origin |-> o, angles |-> a, projection |-> p,
                   built |-> FALSE, camera |-> NoCamera,
                   read |-> FALSE, got |-> NoCamera,
                   cfg |-> cfg,
                   ent |-> [model_id |-> m, origin |-> eo, angles |-> ea],
                   calculated |-> "no", transform |-> Matrix4_identity]

\* Camera::new(origin, angles, projection)
CameraNew ==
    /\ ~test.built
    /\ test' = [test EXCEPT !.built = TRUE,
                            !.camera = Camera_new(test.origin, test.angles, test.projection)]
    /\ UNCHANGED <<renderer_vars, gpu_vars>>

\* the three accessors are called on the camera
CameraRead ==
    /\ test.built
    /\ test' = [test EXCEPT !.read = TRUE,
                            !.got = [origin |-> Camera_origin(test.camera),
                                     angles |-> Camera_angles(test.camera),
                                     transform |-> Camera_transform(test.camera)]]
    /\ UNCHANGED <<renderer_vars, gpu_vars>>

\* calculate_transform(camera, entity) of the Renderer built from test.cfg
CalculateTransform ==
    /\ test.built
    /\ test.calculated = "no"
    /\ LET self == [entity_renderers |-> RenderersOf(test.cfg).renderers]
       IN  IF renderer_for_entity(self, test.ent) = Panic
           THEN test' = [test EXCEPT !.calculated = "panic"]
           ELSE test' = [test EXCEPT !.calculated = "yes",
                                     !.transform = calculate_transform(self, test.camera, test.ent)]
    /\ UNCHANGED <<renderer_vars, gpu_vars>>

NextCamera ==
    \/ CameraNew
    \/ CameraRead
    \/ CalculateTransform

\* a camera is built, read and used for the transform of one entity
SpecCamera == InitCamera /\ [][NextCamera]_vars

\* ------------------------------------------- bind group layouts on their own
\* enum BindGroupLayoutId
PerFrame == 0
PerEntity == 1
PerTexture == 2
PerFace == 3
BindGroupLayoutId == { PerFrame, PerEntity, PerTexture, PerFace }

\* BIND_GROUP_LAYOUT_DESCRIPTORS: the shapes of the per-frame and per-entity layouts
BIND_GROUP_LAYOUT_DESCRIPTORS == << "per-frame", "per-entity" >>

\* the pipelines compiled with the shared prefix
PrefixedPipelines == { "alias", "brush", "sprite" }

\* P::bind_group_layout_descriptors(): a pipeline brings any number of own
\* layouts the id space has room for
OwnLayoutCounts == 0..(PerFace - PerEntity)

\* device.create_bind_group_layout(desc): a layout made by `owner` from its desc-th descriptor
Layout(owner, desc) == [owner |-> owner, desc |-> desc]
PanicLayout == Layout("panic", 0 - 1)

\* create_pipeline::<P>(device, compiler, prefix): the own layouts and the
\* layouts of the pipeline layout, the prefix first
create_pipeline(P, n, bind_group_layout_prefix) ==
    LET bind_group_layouts == [ i \in 1..n |-> Layout(P, i - 1) ]
    IN  [own |-> bind_group_layouts,
         layouts |-> bind_group_layout_prefix \o bind_group_layouts]

\* &self.xxx_bind_group_layouts[id as usize - 2]: the subtraction is unsigned
xxx_bind_group_layout(own, id) ==
    LET i == id - 2
    IN  IF i < 0 \/ i >= Len(own) THEN PanicLayout ELSE own[i + 1]

NoLayouts == [own |-> <<>>, layouts |-> <<>>]

InitLayouts ==
    /\ InitGraphicsState
    /\ \E a \in OwnLayoutCounts, b \in OwnLayoutCounts, s \in OwnLayoutCounts :
         test = [counts |-> [alias |-> a, brush |-> b, sprite |-> s],
                 built |-> FALSE,
                 bind_group_layouts |-> <<>>,
                 pipelines |-> [p \in PrefixedPipelines |-> NoLayouts],
                 called |-> FALSE, P |-> "alias", id |-> PerFrame, result |-> PanicLayout]

\* GraphicsState::new: the shared layouts, then the three pipelines with them as prefix
GraphicsStateNewLayouts ==
    /\ ~test.built
    /\ LET shared == [ i \in 1..Len(BIND_GROUP_LAYOUT_DESCRIPTORS) |-> Layout("shared", i - 1) ]
       IN  test' = [test EXCEPT !.built = TRUE,
                                !.bind_group_layouts = shared,
                                !.pipelines = [p \in PrefixedPipelines |->
                                                  create_pipeline(p, test.counts[p], shared)]]
    /\ UNCHANGED <<renderer_vars, gpu_vars>>

\* alias_bind_group_layout(id), brush_bind_group_layout(id), sprite_bind_group_layout(id)
BindGroupLayoutAccessor ==
    /\ test.built
    /\ ~test.called
    /\ \E p \in PrefixedPipelines, id \in BindGroupLayoutId :
         test' = [test EXCEPT !.called = TRUE, !.P = p, !.id = id,
                              !.result = xxx_bind_group_layout(test.pipelines[p].own, id)]
    /\ UNCHANGED <<renderer_vars, gpu_vars>>

NextLayouts ==
    \/ GraphicsStateNewLayouts
    \/ BindGroupLayoutAccessor

\* the layouts are created and one accessor is called with one id
SpecLayouts == InitLayouts /\ [][NextLayouts]_vars

\* ------------------------------------------------------------- properties
Panics == {"renderer_index", "block_index", "invalid_worldmodel", "clear_failed"}

\* a render_pass call has recorded its commands (and perhaps submitted them)
PassRecorded == frame.in_pass /\ (pc \in {"recorded", "submitted"} \/ (pc = "idle" /\ submitted = 1))

UniformIdx == { i \in DOMAIN trace : trace[i].op \in UniformOps }
CommandIdx == { i \in DOMAIN trace : trace[i].op \in Commands }

\* positions of the entities of the frame, as the code counts them
EntPositions == 0..(Len(frame.ents) - 1)

\* the trace entries that bind the entity group for the entity at position n
BindsAt(n) == { i \in DOMAIN trace : trace[i].op = "bind" /\ trace[i].buf = "PerEntity" /\ trace[i].pos = n }
\* the trace entries that draw the entity at position n
DrawsAt(n) == { i \in DOMAIN trace : trace[i].op = "draw" /\ trace[i].buf = "PerEntity" /\ trace[i].pos = n }
\* the trace entries of the update phase that stage the block of position n
WritesAt(n) == { i \in DOMAIN trace : trace[i].op \in {"allocate", "write_block"} /\ trace[i].buf = "entity" /\ trace[i].pos = n }
FlushesOf(b) == { i \in DOMAIN trace : trace[i].op = "flush" /\ trace[i].buf = b }

\* the block of a dynamic buffer at a byte offset (1-based index into staged and gpu)
BlockAt(addr) == (addr \div block_size) + 1

\* C1: within a render_pass call every uniform operation (the frame write, every
\* allocate, write_block, clear and flush) precedes every recorded bind or draw
\* command, and both flushes have happened before the first command: the update
\* phase and the draw phase never interleave.
C1_PhasesNeverInterleave ==
    frame.in_pass =>
        \A j \in CommandIdx :
            /\ \A i \in UniformIdx : i < j
            /\ \E i \in FlushesOf("entity") : i < j
            /\ \E i \in FlushesOf("glyph") : i < j

\* a second frame with two entities has been recorded and submitted
C1_Witness ==
    /\ PassRecorded /\ pc = "idle" /\ tick = 2
    /\ Len(frame.ents) = 2
    /\ DrawsAt(0) # {} /\ DrawsAt(1) # {}
    /\ UniformIdx # {}

\* C2: every entity position a render_pass draws has exactly one entity block
\* bound; that block was staged in this frame's update phase with this entity's
\* transform and flushed before the bind, so the GPU copy the draw reads is this
\* frame's value, never an earlier frame's and never an unflushed one.
C2_FreshBlockPerDraw ==
    PassRecorded =>
        \A n \in EntPositions :
            DrawsAt(n) # {} =>
                /\ Cardinality(BindsAt(n)) = 1
                /\ \A b \in BindsAt(n) :
                    /\ BlockAt(trace[b].addr) \in DOMAIN entity_uniform_buffer.gpu
                    /\ entity_uniform_buffer.gpu[BlockAt(trace[b].addr)] =
                           Stamped(calculate_transform(Self, frame.camera, frame.ents[n + 1]), tick)
                    /\ \E u \in WritesAt(n), f \in FlushesOf("entity") :
                           /\ trace[u].addr = trace[b].addr
                           /\ u < f /\ f < b
                    /\ \A d \in DrawsAt(n) : b < d

\* a second frame reuses the block of position 0 and draws from it
C2_Witness ==
    /\ pc = "recorded" /\ frame.in_pass /\ tick = 2
    /\ DrawsAt(0) # {} /\ DrawsAt(1) # {}
    /\ \E u \in WritesAt(0) : trace[u].op = "write_block"
    /\ frame.ents[1].model_id # frame.ents[2].model_id

\* C3: the update phase and the draw loop visit the entities in the same order:
\* the offset bound at draw position n is the offset of the one block the update
\* phase staged for position n, in both phases the positions come in the order
\* 0, 1, 2, ..., and that block holds the transform of the entity at position n.
C3_SameOrder ==
    PassRecorded =>
        /\ \A n \in EntPositions :
            /\ Cardinality(WritesAt(n)) = 1
            /\ Cardinality(BindsAt(n)) = 1
            /\ \A u \in WritesAt(n), b \in BindsAt(n) :
                /\ trace[u].addr = trace[b].addr
                /\ entity_uniform_buffer.staged[BlockAt(trace[b].addr)].val =
                       calculate_transform(Self, frame.camera, frame.ents[n + 1])
        /\ \A n \in EntPositions, m \in EntPositions :
            n < m =>
                /\ \A u \in WritesAt(n), v \in WritesAt(m) : u < v
                /\ \A b \in BindsAt(n), c \in BindsAt(m) : b < c
                /\ \A b \in BindsAt(n), c \in BindsAt(m) : trace[b].addr # trace[c].addr

\* a frame of two different entities that follows a frame of one entity
C3_Witness ==
    /\ pc = "recorded" /\ frame.in_pass /\ tick = 2
    /\ Len(frame.ents) = 2
    /\ frame.ents[1].model_id # frame.ents[2].model_id
    /\ \E u \in WritesAt(0) : trace[u].op = "write_block"
    /\ \E u \in WritesAt(1) : trace[u].op = "allocate"

\* C4: the index into entity_uniform_blocks used for a bind is always in range:
\* no call ends in an out-of-range block index, and when the update phase
\* returns the list holds at least one block per entity of the frame.
C4_BlockIndexInBounds ==
    /\ pc # "block_index"
    /\ (pc \in {"updated", "recorded"} => Len(entity_uniform_blocks) >= Len(frame.ents))
    /\ \A i \in DOMAIN trace :
           (trace[i].op = "bind" /\ trace[i].pos >= 0) => trace[i].pos < Len(entity_uniform_blocks)

\* a frame with more entities than every earlier frame has bound its last entity
C4_Witness ==
    /\ pc = "recorded" /\ tick = 2
    /\ Len(frame.ents) = 2
    /\ \E u \in WritesAt(1) : trace[u].op = "allocate"
    /\ BindsAt(1) # {}

\* the panics that end a call
Aborted == pc \in Panics

\* C5: while the Renderer lives, the number of its entity blocks is the largest
\* entity count of any update call so far; a call keeps the blocks it had
\* (position n reuses block n) and allocates exactly one new block for each
\* position past them, so the list never shrinks.
C5_MonotonicEntityBlocks ==
    /\ [](~Aborted => Len(entity_uniform_blocks) = max_ents)
    /\ [][(pc = "idle" /\ tick' = tick + 1 /\ pc' \notin Panics) =>
            /\ Len(entity_uniform_blocks') = Max(Len(entity_uniform_blocks), Len(frame'.ents))
            /\ SubSeq(entity_uniform_blocks', 1, Len(entity_uniform_blocks)) = entity_uniform_blocks
            /\ Len(entity_uniform_buffer'.staged) - Len(entity_uniform_buffer.staged)
                   = Len(entity_uniform_blocks') - Len(entity_uniform_blocks)
            /\ \A n \in 0..(Len(frame'.ents) - 1) :
                   \E u \in DOMAIN trace' :
                       /\ trace'[u].buf = "entity" /\ trace'[u].pos = n
                       /\ trace'[u].op = (IF n < Len(entity_uniform_blocks) THEN "write_block" ELSE "allocate")
                       /\ trace'[u].addr = entity_uniform_blocks'[n + 1].addr]_vars

\* after a frame of two entities, a frame of one entity has kept both blocks
C5_Witness ==
    /\ pc = "updated" /\ tick = 2
    /\ Len(frame.ents) = 1
    /\ Len(entity_uniform_blocks) = 2

\* an update call has returned (and no later call has started)
UpdateReturned == tick >= 1 /\ ~Aborted

\* C6: after every update_uniform_buffers call the glyph block list holds one
\* block per glyph uniform of this call, each allocated after this call's clear,
\* at consecutive offsets from 0, and the glyph buffer stages exactly this
\* call's uniforms: nothing of an earlier frame remains.
C6_GlyphBlocksRegenerated ==
    UpdateReturned =>
        /\ Len(glyph_uniform_blocks) = frame.nglyphs
        /\ Len(glyph_uniform_buffer.staged) = frame.nglyphs
        /\ glyph_uniform_buffer.epoch = tick
        /\ \A k \in 1..frame.nglyphs :
            /\ glyph_uniform_blocks[k].epoch = glyph_uniform_buffer.epoch
            /\ glyph_uniform_blocks[k].addr = (k - 1) * block_size
            /\ glyph_uniform_buffer.staged[k] = Stamped(<<"glyph", k>>, tick)
        /\ \A i \in DOMAIN trace :
            (trace[i].buf = "glyph" /\ trace[i].op = "allocate") =>
                \E c \in DOMAIN trace : trace[c].op = "clear" /\ trace[c].buf = "glyph" /\ c < i
        /\ \A i \in DOMAIN trace : ~(trace[i].buf = "glyph" /\ trace[i].op = "write_block")

\* the glyph count shrank from one frame to the next
C6_Witness ==
    /\ UpdateReturned /\ tick = 2
    /\ frame.nglyphs = 0
    /\ Len(glyph_uniform_buffer.gpu) = 1

FlushedCopy(b) ==
    \A i \in DOMAIN b.staged : i \in DOMAIN b.gpu /\ b.gpu[i] = b.staged[i]

\* the last uniform operation of the call on buffer b
LastOn(b) == { i \in UniformIdx : trace[i].buf = b /\ \A j \in UniformIdx : trace[j].buf = b => j <= i }

\* C7: when update_uniform_buffers has returned, the last operation of the call
\* on the entity buffer and on the glyph buffer is a flush, and the GPU copy of
\* every block of both buffers equals its staged value.
C7_FlushedOnReturn ==
    UpdateReturned =>
        /\ FlushedCopy(entity_uniform_buffer)
        /\ FlushedCopy(glyph_uniform_buffer)
        /\ \A i \in LastOn("entity") \cup LastOn("glyph") : trace[i].op = "flush"
        /\ LastOn("entity") # {} /\ LastOn("glyph") # {}

\* a call that both rewrote and allocated entity blocks and allocated a glyph block
C7_Witness ==
    /\ pc = "updated" /\ tick = 2
    /\ \E u \in WritesAt(0) : trace[u].op = "write_block"
    /\ \E u \in WritesAt(1) : trace[u].op = "allocate"
    /\ frame.nglyphs = 1

\* the commands of the call, in the order they were recorded
cmds == SelectSeq(trace, LAMBDA e : e.op \in Commands)

\* number of entities of the frame whose renderer draws
Drawn(n) == renderer_for_entity(Self, frame.ents[n + 1]).tag \in {"Alias", "Brush", "Sprite"}

\* C8: the commands of a render_pass are: the per-frame bind, once and first;
\* the world's bind (at the world block's offset) and draw; then per entity, in
\* position order, the bind of its block's offset immediately followed by its
\* draw; the glyph draw last and only there; and the call submits exactly one
\* command buffer.
C8_CommandOrder ==
    PassRecorded =>
        /\ Len(cmds) >= 4
        /\ cmds[1] = Event("bind", "PerFrame", 0, 0 - 1, "NA")
        /\ \A i \in 2..Len(cmds) : cmds[i].buf # "PerFrame"
        /\ cmds[2] = Event("bind", "PerEntity", world_uniform_block.addr, 0 - 1, "world")
        /\ cmds[3] = Event("draw", "PerEntity", world_uniform_block.addr, 0 - 1, "world")
        /\ cmds[Len(cmds)].op = "draw" /\ cmds[Len(cmds)].buf = "glyph"
        /\ \A i \in 1..(Len(cmds) - 1) : cmds[i].buf # "glyph"
        /\ \A i \in 4..(Len(cmds) - 1) :
            /\ cmds[i].pos \in EntPositions
            /\ cmds[i].addr = entity_uniform_blocks[cmds[i].pos + 1].addr
            /\ cmds[i].op = "draw" => cmds[i - 1] = [cmds[i] EXCEPT !.op = "bind", !.via = "NA"]
            /\ \A j \in 4..(Len(cmds) - 1) : (i < j) => cmds[i].pos <= cmds[j].pos
        /\ \A n \in EntPositions :
            /\ Cardinality({ i \in 4..(Len(cmds) - 1) : cmds[i].op = "bind" /\ cmds[i].pos = n }) = 1
            /\ Cardinality({ i \in 4..(Len(cmds) - 1) : cmds[i].op = "draw" /\ cmds[i].pos = n })
                   = (IF Drawn(n) THEN 1 ELSE 0)
        /\ submitted = (IF pc = "recorded" THEN 0 ELSE 1)

\* a submitted frame of two drawn entities
C8_Witness ==
    /\ PassRecorded /\ pc = "idle" /\ submitted = 1
    /\ Len(frame.ents) = 2
    /\ Len(cmds) = 8

\* the model list of the example: [keyframe, static geometry, sprite], world = 1
ExampleModels == models = <<Alias, Brush, SpriteParallel>> /\ worldmodel_id = 1

\* C9: with models [keyframe, static geometry, sprite] and world model 1, an
\* entity of model 2 is dispatched to the sprite renderer when its transform is
\* computed (the billboard angles of a sprite that is not oriented) and when it
\* is drawn, exactly one draw, and a frame of such entities does not panic.
C9_SpriteDispatch ==
    ExampleModels =>
        /\ (tick >= 1 /\ \A k \in DOMAIN frame.ents : frame.ents[k].model_id = 2) => ~Aborted
        /\ \A n \in EntPositions :
            (frame.ents[n + 1].model_id = 2 /\ ~Aborted) =>
                /\ \A u \in WritesAt(n) :
                    /\ trace[u].via = "Sprite"
                    /\ entity_uniform_buffer.staged[BlockAt(trace[u].addr)].val.euler =
                           <<0 - frame.camera.angles[1], 0 - frame.camera.angles[2],
                             frame.ents[n + 1].angles[3]>>
                /\ WritesAt(n) # {}
                /\ \A d \in DrawsAt(n) : trace[d].via = "Sprite"
                /\ PassRecorded => Cardinality(DrawsAt(n)) = 1

\* an entity of model 2 has been drawn in the example
C9_Witness ==
    /\ ExampleModels /\ PassRecorded
    /\ \E n \in EntPositions : frame.ents[n + 1].model_id = 2 /\ DrawsAt(n) # {}

\* the entities of the frame whose model was classified unsupported
Unsupported(n) == models[frame.ents[n + 1].model_id + 1].kind = "None"

\* C10: a frame that contains an entity of an unsupported model does not abort;
\* no draw is recorded for that entity, every entity of a supported model is
\* drawn, and so are the glyphs.
C10_UnsupportedSkipped ==
    (tick >= 1 /\ \E n \in EntPositions : Unsupported(n)) =>
        /\ ~Aborted
        /\ PassRecorded =>
            /\ \A n \in EntPositions : Unsupported(n) => DrawsAt(n) = {}
            /\ \A n \in EntPositions : ~Unsupported(n) => DrawsAt(n) # {}
            /\ \E i \in DOMAIN trace : trace[i].op = "draw" /\ trace[i].buf = "glyph"

\* --------------------------------------------------- staging discipline
\* the staging state of the two dynamic buffers of the Renderer
Staging == << entity_uniform_buffer.staged, entity_uniform_buffer.epoch,
              glyph_uniform_buffer.staged, glyph_uniform_buffer.epoch >>

\* C11: the staging state of a dynamic uniform buffer changes only in a step
\* of an update_uniform_buffers call, and in a call that returns every
\* allocate, write_block and clear on a buffer is followed by the call's flush
\* of that buffer: no construction step and no later step of a frame allocates,
\* writes or clears.
C11_StagingOnlyInUpdate ==
    [][ (Staging' # Staging) =>
            /\ tick' = tick + 1
            /\ pc' \notin Panics =>
                   \A b \in {"entity", "glyph"} :
                       \A i \in { k \in DOMAIN trace' : trace'[k].buf = b /\ trace'[k].op \in {"allocate", "write_block", "clear"} } :
                           \E f \in { k \in DOMAIN trace' : trace'[k].buf = b /\ trace'[k].op = "flush" } : i < f ]_vars

\* C12: while no render_pass call is running the device holds no unfinished
\* command buffer: render_pass returns only after the device has completed
\* what the call submitted, so a recreate_depth_attachment between two frames
\* never replaces a depth texture that submitted work still uses.
C12_NoFrameInFlight ==
    /\ [](pc \in {"no_renderer", "idle"} => in_flight = {})
    /\ [][ depth_attachment' # depth_attachment =>
              \A cb \in in_flight : cb.depth # depth_attachment ]_vars
    /\ [][ (pc = "submitted" /\ pc' = "idle") => in_flight = {} ]_vars

\* a second frame has been submitted after a resize that followed the first frame
C12_Witness ==
    /\ pc = "submitted" /\ tick = 2
    /\ in_flight = {[frame |-> 2, depth |-> 1]}
    /\ depth_attachment = 1

\* C13: the depth view of a running render_pass, and the depth attachment of
\* every command buffer in flight, is the texture the GraphicsState holds now,
\* which is the one it held when the render_pass started: after a resize no
\* pass uses a texture that was replaced.
C13_DepthViewIsCurrent ==
    /\ [](pc \in {"updated", "recorded", "submitted"} => depth_view = depth_attachment)
    /\ [](\A cb \in in_flight : cb.depth = depth_attachment)
    /\ [][ (pc = "idle" /\ tick' = tick + 1) => depth_view' = depth_attachment ]_vars
    /\ [][ depth_view' = depth_view \/ pc = "idle" \/ pc' = "idle" ]_vars

\* a frame, then two resizes, then a frame that has recorded its pass
C13_Witness ==
    /\ pc = "recorded" /\ tick = 2
    /\ depth_attachment = 2 /\ depth_view = 2

\* ------------------------------------------------------ the allocator
\* the stride s is the smallest multiple of alignment a that is >= size sz
SmallestMultiple(s, a, sz) ==
    /\ s % a = 0
    /\ s >= sz
    /\ \A m \in 0..(sz + a) : (m % a = 0 /\ m >= sz) => s <= m

\* C14: the stride of a buffer constructed for a struct of size S on a device
\* of alignment A is the smallest multiple of A that is >= S; with A = 256 the
\* sizes 4, 255, 256, 257 give 256, 256, 256, 512; the entity buffer's stride
\* is the smallest multiple of the alignment >= size_of(EntityUniforms).
C14_StrideIsRoundUp ==
    /\ test.built =>
        /\ SmallestMultiple(test.buf.stride, test.align, test.size)
        /\ (test.align = 256 /\ test.size \in {4, 255, 256}) => test.buf.stride = 256
        /\ (test.align = 256 /\ test.size = 257) => test.buf.stride = 512
    /\ SmallestMultiple(entity_uniform_buffer.stride, Alignment, EntityUniformsSize)
    /\ block_size = entity_uniform_buffer.stride

\* the buffer for size 256 and alignment 256 has been constructed
C14_Witness ==
    /\ test.built /\ test.align = 256 /\ test.size = 256
    /\ test.buf.stride = 256

\* the blocks [addr, addr + stride) of the handles hs of buffer b start at
\* multiples of the alignment, lie in the staged region and do not overlap
AlignedDisjoint(b, hs, align) ==
    /\ \A i \in DOMAIN hs :
        /\ hs[i].addr >= 0
        /\ hs[i].addr % align = 0
        /\ hs[i].addr + b.stride <= Len(b.staged) * b.stride
    /\ \A i \in DOMAIN hs, j \in DOMAIN hs :
        i # j =>
            /\ hs[i].addr # hs[j].addr
            /\ (hs[i].addr + b.stride <= hs[j].addr \/ hs[j].addr + b.stride <= hs[i].addr)

\* C15: once a Renderer exists, the offsets of its world block and of all its
\* entity blocks in the entity buffer, and of its glyph blocks in the glyph
\* buffer (all allocated since that buffer's last clear), are multiples of the
\* alignment, pairwise distinct, and their blocks do not overlap; every
\* allocate of a call returned such an offset.
C15_BlocksAlignedDisjoint ==
    (pc \notin {"no_renderer", "invalid_worldmodel"}) =>
        /\ AlignedDisjoint(entity_uniform_buffer, <<world_uniform_block>> \o entity_uniform_blocks, Alignment)
        /\ AlignedDisjoint(glyph_uniform_buffer, glyph_uniform_blocks, Alignment)
        /\ \A k \in DOMAIN glyph_uniform_blocks : glyph_uniform_blocks[k].epoch = glyph_uniform_buffer.epoch
        /\ \A i \in DOMAIN trace : trace[i].op = "allocate" => trace[i].addr % Alignment = 0
        /\ \A i \in DOMAIN trace, j \in DOMAIN trace :
               (i # j /\ trace[i].op = "allocate" /\ trace[j].op = "allocate" /\ trace[i].buf = trace[j].buf)
                   => trace[i].addr # trace[j].addr

\* the Renderer holds the world block, two entity blocks and a glyph block
\* allocated after a clear of a glyph buffer that had a block
C15_Witness ==
    /\ pc = "updated" /\ tick = 2
    /\ Len(entity_uniform_blocks) = 2
    /\ Len(glyph_uniform_blocks) = 1
    /\ Len(glyph_uniform_buffer.gpu) = 1 /\ glyph_uniform_buffer.epoch = 2
    /\ world_uniform_block.addr = 0

\* the handles of the buffer driven on its own that are valid: returned since
\* the last clear
LiveHandles == { k \in DOMAIN test.handles : test.handles[k].epoch = test.buf.epoch }

\* the index (1-based) of the block of handle k in staged and gpu
TestBlock(k) == (test.handles[k].addr \div test.buf.stride) + 1

\* a step that is a call of the method op on the buffer driven on its own
TestCall(op) == test'.last.op = op /\ test' # test

\* C16: whenever flush has just been called, reading the GPU copy at the
\* offset of any valid handle yields the last value given to that handle, by
\* its allocate or by a later write_block, whatever the order of the calls for
\* the different handles was.
C16_RoundTrip ==
    test.last.op = "flush" =>
        \A k \in LiveHandles :
            /\ TestBlock(k) \in DOMAIN test.buf.gpu
            /\ test.buf.gpu[TestBlock(k)] = test.given[k]

\* two blocks, the first written after the second was allocated and after an
\* earlier flush, then flushed
C16_Witness ==
    /\ test.last.op = "flush"
    /\ Cardinality(LiveHandles) = 2 /\ Len(test.handles) = 2
    /\ test.given[1] > test.given[2]
    /\ test.given[1] = MaxOps

\* C17: an allocate, growing the capacity or not, leaves the staged values of
\* the blocks allocated before and the offsets of their handles as they were,
\* and gives the new block the next offset; so every valid handle stages the
\* last value given to it, and after a flush all blocks read back the same.
C17_GrowthSafety ==
    /\ [][ TestCall("allocate") =>
              /\ Len(test'.buf.staged) = Len(test.buf.staged) + 1
              /\ \A i \in DOMAIN test.buf.staged : test'.buf.staged[i] = test.buf.staged[i]
              /\ \A k \in DOMAIN test.handles : test'.handles[k] = test.handles[k]
              /\ test'.handles[test'.last.k].addr = Len(test.buf.staged) * test.buf.stride
              /\ test'.buf.staged[Len(test'.buf.staged)] = test'.given[test'.last.k] ]_vars
    /\ [](\A k \in LiveHandles : test.buf.staged[TestBlock(k)] = test.given[k])
    /\ [](test.last.op = "flush" => FlushedCopy(test.buf))

\* the third block was allocated on a buffer sized for two, before any flush
C17_Witness ==
    /\ test.last.op = "allocate" /\ test.last.grew
    /\ Len(test.buf.staged) = 3 /\ test.buf.cap = 4
    /\ Len(test.buf.gpu) = 0
    /\ test.given[1] # test.given[2]

\* C18: the number of elements of a buffer never exceeds its capacity: the
\* block of every valid handle lies inside the capacity, an allocate on a full
\* buffer (a fresh one of capacity zero included) grows the capacity and
\* returns a handle, and no allocate fails.
C18_WithinCapacity ==
    /\ [](test.built =>
             /\ Len(test.buf.staged) <= test.buf.cap
             /\ \A k \in LiveHandles :
                    test.handles[k].addr + test.buf.stride <= test.buf.cap * test.buf.stride)
    /\ [][ TestCall("allocate") =>
              /\ test'.last.grew = (Len(test.buf.staged) = test.buf.cap)
              /\ test'.last.grew => test'.buf.cap > test.buf.cap
              /\ test'.last.k \in DOMAIN test'.handles
              /\ test'.handles[test'.last.k].epoch = test'.buf.epoch ]_vars

\* the first allocate on a fresh buffer of capacity zero has returned
C18_Witness ==
    /\ test.last.op = "allocate" /\ test.last.grew
    /\ test.last.k = 1 /\ test.buf.epoch = 0
    /\ test.buf.cap = 1 /\ test.handles[1].addr = 0

\* C19: after clear the buffer has no element and no handle returned before is
\* valid; the allocate that follows a clear, of an empty buffer or not, returns
\* offset 0, the offset allocate returns on a freshly constructed buffer, and
\* its value is the only element.
C19_ClearResets ==
    /\ [](test.last.op = "clear" => (Len(test.buf.staged) = 0 /\ LiveHandles = {}))
    /\ [][ (test.last.op = "clear" /\ TestCall("allocate")) =>
              /\ test'.handles[test'.last.k].addr = 0
              /\ test'.handles[test'.last.k].addr =
                     allocate(DynamicUniformBuffer_for(test.size, test.align), test'.given[test'.last.k]).block.addr
              /\ test'.buf.staged = << test'.given[test'.last.k] >>
              /\ LiveHandles' = {test'.last.k} ]_vars

\* two blocks, a clear, then an allocate
C19_Witness ==
    /\ test.last.op = "allocate" /\ test.buf.epoch = 1
    /\ Len(test.handles) = 3 /\ LiveHandles = {3}
    /\ test.handles[3].addr = 0

\* C20: a write_block changes the staged value of the handle's block and
\* nothing else: the other staged values, the number of elements and the GPU
\* copy stay; the GPU copy changes only in a flush, after which it holds the
\* staged values.
C20_WriteBlockEffect ==
    /\ [][ TestCall("write_block") =>
              /\ test'.buf.gpu = test.buf.gpu
              /\ Len(test'.buf.staged) = Len(test.buf.staged)
              /\ \A i \in DOMAIN test.buf.staged :
                     test'.buf.staged[i] = (IF i = TestBlock(test'.last.k)
                                           THEN test'.given[test'.last.k]
                                           ELSE test.buf.staged[i])
              /\ test'.buf.cap = test.buf.cap /\ test'.buf.epoch = test.buf.epoch ]_vars
    /\ [][ test'.buf.gpu # test.buf.gpu =>
              /\ TestCall("flush")
              /\ FlushedCopy(test'.buf) ]_vars

\* a flushed block of two was rewritten: the GPU copy still has the old value
C20_Witness ==
    /\ test.last.op = "write_block"
    /\ Len(test.buf.staged) = 2 /\ Len(test.buf.gpu) = 2
    /\ test.buf.gpu[TestBlock(test.last.k)] # test.buf.staged[TestBlock(test.last.k)]

\* ------------------------------------------------- camera and transforms
\* the renderer the lookup selects for the entity of the camera harness
TestRenderer == renderer_for_entity([entity_renderers |-> RenderersOf(test.cfg).renderers], test.ent)

\* C21: the transform calculated for an entity is camera.transform x
\* translate(-origin.y, origin.z, -origin.x) x rotation(angles), where the
\* angles are the entity's own three angles when the dispatched renderer is a
\* sprite of kind oriented or no sprite, and (-camera.angles.x,
\* -camera.angles.y, own angles.z) when it is any other sprite.
C21_TransformAngles ==
    test.calculated = "yes" =>
        /\ test.transform.proj = test.camera.transform.proj
        /\ test.transform.rot = test.camera.transform.rot
        /\ test.transform.trans = test.camera.transform.trans
        /\ test.transform.translate = <<0 - test.ent.origin[2], test.ent.origin[3], 0 - test.ent.origin[1]>>
        /\ test.transform.euler =
              (IF TestRenderer.tag = "Sprite" /\ TestRenderer.kind # "Oriented"
               THEN <<0 - test.angles[1], 0 - test.angles[2], test.ent.angles[3]>>
               ELSE test.ent.angles)

\* a sprite that is not oriented got the camera's negated angles and its own roll
C21_Witness ==
    /\ test.calculated = "yes"
    /\ TestRenderer.tag = "Sprite" /\ TestRenderer.kind = "VpParallel"
    /\ test.angles = <<10, 20, 30>> /\ test.ent.angles = <<40, 50, 60>>
    /\ test.transform.euler = <<0 - 10, 0 - 20, 60>>

\* C22: the transform of a Camera is projection x rotation(angles.x,
\* -angles.y, -angles.z) x translate(origin.y, -origin.z, origin.x), the
\* identity for origin 0, angles 0 and the identity projection; the accessors
\* return the origin, the angles and that transform, and the Camera never
\* changes once constructed.
C22_CameraTransform ==
    /\ [](test.built =>
             /\ Camera_transform(test.camera) =
                    Matrix4(test.projection,
                            <<test.angles[1], 0 - test.angles[2], 0 - test.angles[3]>>,
                            <<test.origin[2], 0 - test.origin[3], test.origin[1]>>,
                            <<0, 0, 0>>, <<0, 0, 0>>)
             /\ Camera_origin(test.camera) = test.origin
             /\ Camera_angles(test.camera) = test.angles
             /\ (test.origin = <<0, 0, 0>> /\ test.angles = <<0, 0, 0>> /\ test.projection = "I")
                    => Camera_transform(test.camera) = Matrix4_identity)
    /\ [](test.read => test.got = test.camera)
    /\ [][test.built => test'.camera = test.camera]_vars

\* the camera at the origin with identity projection was built, read and used
C22_Witness ==
    /\ test.built /\ test.read /\ test.calculated = "yes"
    /\ test.origin = <<0, 0, 0>> /\ test.angles = <<0, 0, 0>> /\ test.projection = "I"
    /\ test.camera.transform = Matrix4_identity

\* ------------------------------------------------------ layout accessors
\* the number of shared layouts a pipeline was compiled with
PrefixLength(p) == Len(test.pipelines[p].layouts) - Len(test.pipelines[p].own)

\* Where an accessor returns, it returns the layout the pipeline layout has
\* at slot id, and every pipeline got the two shared layouts as prefix.
LayoutAtSlot ==
    /\ test.built =>
          \A p \in PrefixedPipelines :
              /\ PrefixLength(p) = 2
              /\ PrefixLength(p) = Len(test.bind_group_layouts)
    /\ (test.called /\ test.result # PanicLayout) =>
          /\ test.result = test.pipelines[test.P].layouts[test.id + 1]
          /\ test.result = test.pipelines[test.P].own[test.id - PrefixLength(test.P) + 1]

\* C23: an alias, brush or sprite layout accessor called with any id of
\* {PerFrame, PerEntity, PerTexture, PerFace} returns, without failing, the
\* pipeline's own layout at position id minus the shared prefix length, and
\* that prefix length is 2, the number of shared layouts.
C23_AccessorDefined ==
    test.called =>
        /\ PrefixLength(test.P) = 2
        /\ PrefixLength(test.P) = Len(test.bind_group_layouts)
        /\ test.result # PanicLayout
        /\ test.result = test.pipelines[test.P].own[test.id - PrefixLength(test.P) + 1]

\* --------------------------------------------------------------- dispatch
\* C24: once a Renderer is built from a model list with world index w, the
\* renderer that renderer_for_entity selects for an entity of model index m,
\* m different from w, is the one classified from models[m]: the lookup does
\* not fail and does not select another model's renderer, for m below w as
\* for m above w.
C24_LookupIsOwnRenderer ==
    (pc \notin {"no_renderer", "invalid_worldmodel"}) =>
        \A m \in (0..(Len(models) - 1)) \ {worldmodel_id} :
            renderer_for_entity(Self, [model_id |-> m]) = EntityRenderer(models[m + 1])

\* ------------------------------------------------------------ bind group
\* the world or an entity was bound and drawn in the recorded pass
EntityDrawRecorded ==
    /\ PassRecorded
    /\ \E i \in CommandIdx : trace[i].op = "bind" /\ trace[i].buf = "PerEntity"

GlyphClears == { i \in DOMAIN trace : trace[i].op = "clear" /\ trace[i].buf = "glyph" }

\* C26: the clear of the glyph uniform buffer in update_uniform_buffers never
\* fails, in the first frame or a later one: whenever it is called the
\* Renderer holds no glyph block handle, those of the previous frame included.
C26_GlyphClearSucceeds ==
    /\ pc # "clear_failed"
    /\ \A i \in GlyphClears : trace[i].pos = 0

\* the second frame, without glyphs, cleared the glyph buffer after a first
\* frame that had allocated a glyph block and flushed it
C26_Witness ==
    /\ tick = 2 /\ pc = "updated"
    /\ GlyphClears # {}
    /\ glyph_uniform_buffer.epoch = 2
    /\ frame.nglyphs = 0
    /\ Len(glyph_uniform_buffer.gpu) = 1
    /\ glyph_uniform_blocks = <<>>

\* -------------------------------------------------------- handle lifetime
\* the handle refers to an element of the entity uniform buffer as it is now
LiveIn(b, h) == h.epoch = b.epoch /\ h.addr \div b.stride < Len(b.staged) /\ h.addr % b.stride = 0

\* the number of blocks the entity uniform buffer has given out
Allocated == Len(entity_uniform_buffer.staged)

\* C27: a world or entity block handle a Renderer holds stays valid: the
\* entity uniform buffer is never cleared, over frames and Renderer rebuilds
\* on one GraphicsState its allocation count never decreases, a Renderer
\* construction adds exactly one block, a frame adds exactly the blocks
\* missing for its entity count (at most those if it aborts), and no other
\* step adds any.
C27_HandlesStayValid ==
    /\ [](pc \notin {"no_renderer", "invalid_worldmodel"} =>
             /\ LiveIn(entity_uniform_buffer, world_uniform_block)
             /\ \A k \in DOMAIN entity_uniform_blocks :
                    LiveIn(entity_uniform_buffer, entity_uniform_blocks[k]))
    /\ [][ /\ entity_uniform_buffer'.epoch = entity_uniform_buffer.epoch
           /\ Allocated' >= Allocated
           /\ (pc \in {"no_renderer", "idle"} /\ tick' = tick /\ depth_attachment' = depth_attachment)
                  => Allocated' = Allocated + 1
           /\ (tick' # tick /\ pc' = "updated")
                  => Allocated' = Allocated + Max(0, Len(frame'.ents) - Len(entity_uniform_blocks))
           /\ (tick' # tick)
                  => Allocated' <= Allocated + Max(0, Len(frame'.ents) - Len(entity_uniform_blocks))
           /\ (pc \notin {"no_renderer", "idle"})
                  => Allocated' = Allocated ]_vars

\* a second Renderer was built after a frame of two entities and ran a frame
\* of one entity: five blocks, the second world block the fourth
C27_Witness ==
    /\ tick = 2 /\ pc = "updated"
    /\ Allocated = 5
    /\ world_uniform_block.addr = 3 * entity_uniform_buffer.stride
    /\ Len(entity_uniform_blocks) = 1
    /\ entity_uniform_blocks[1].addr = 4 * entity_uniform_buffer.stride

====
